---- MODULE Spec2Model ----
(***************************************************************************)
(* Model of the Fingerspot EasyLink SDK (src/src/types.ts):                *)
(*   - FingerspotEasyLink, the registry of device clients (a Map keyed by  *)
(*     serial number) with its INI schedule file,                          *)
(*   - FingerspotDevice, the per-device HTTP client with 14 operations.    *)
(* A JavaScript string that the code only passes around is a TLA+ string;  *)
(* a string the code builds or takes apart (template literals, join,       *)
(* split) is a sequence of pieces/characters.                              *)
(***************************************************************************)
EXTENDS Naturals, Sequences, FiniteSets, Bags

VARIABLES
    devices,       \* FingerspotEasyLink.devices: Map in insertion order, a sequence of [sn, client]
    config,        \* the SDKConfig.devices list the constructor was called with
    fresh,         \* TRUE until the first addDevice / removeDevice after construction
    inserted,      \* per serial number, <<cfg>> for the DeviceConfig of the last Map.set still in the Map, else <<>>
    result,        \* outcome of the last completed call on the registry
    pending,       \* the bag of calls on device clients whose promise the caller still holds
    file,          \* the file at configPath: whether it exists, and its text
    written        \* <<c>> for the DeviceScheduleConfig c of the last successful writeFile, else <<>>

vars == <<devices, config, fresh, inserted, result, pending, file, written>>

\* undefined / no value: an optional value is <<>> or <<v>>
None == <<>>

----------------------------------------------------------------------------
(* Bounds and input domains                                                *)

MaxDevices == 2        \* longest SDKConfig.devices list given to the constructor

SerialNumbers == {"DEVICE001", "DEVICE002", "DEVICE003"}
ServerIPs == {"192.168.1.100", "192.168.1.101"}
ServerPorts == {"8080"}

DeviceConfig == [serverIP : ServerIPs, serverPort : ServerPorts, deviceSN : SerialNumbers]

SeqsUpTo(S, n) == UNION {[1..k -> S] : k \in 0..n}

Range(s) == {s[i] : i \in DOMAIN s}

----------------------------------------------------------------------------
(* FingerspotDevice construction                                           *)

Timeout == 10000

\* `http://${config.serverIP}:${config.serverPort}`
BaseURL(cfg) == <<"http://", cfg.serverIP, ":", cfg.serverPort>>

\* new FingerspotDevice(config)
FingerspotDevice(cfg) ==
    [deviceSN |-> cfg.deviceSN, baseURL |-> BaseURL(cfg), timeout |-> Timeout]

----------------------------------------------------------------------------
(* The JavaScript Map behind FingerspotEasyLink.devices                    *)

MapKeys(m) == [i \in DOMAIN m |-> m[i].sn]

MapHas(m, k) == \E i \in DOMAIN m : m[i].sn = k

\* Map.prototype.get: <<client>>, or <<>> for undefined
MapGet(m, k) == IF MapHas(m, k) THEN <<(CHOOSE e \in Range(m) : e.sn = k).client>> ELSE None

\* a set() that appends even when the key is present (mutant)
MapSetAppend(m, k, v) == Append(m, [sn |-> k, client |-> v])

\* a set() that moves an existing key to the end (mutant)
MapSetMoveToEnd(m, k, v) ==
    Append(SelectSeq(m, LAMBDA e : e.sn # k), [sn |-> k, client |-> v])

\* a set() that keeps the value of an existing key (mutant)
MapSetKeepOld(m, k, v) ==
    IF MapHas(m, k) THEN m ELSE Append(m, [sn |-> k, client |-> v])

\* Map.prototype.set: replaces the value in place, or appends a new key
MapSet(m, k, v) ==
    IF MapHas(m, k)
    THEN [i \in DOMAIN m |-> IF m[i].sn = k THEN [sn |-> k, client |-> v] ELSE m[i]]
    ELSE Append(m, [sn |-> k, client |-> v])

\* a delete() that reports the key but leaves it in the Map (mutant)
MapDeleteKeep(m, k) == m

\* Map.prototype.delete: the Map without the key
MapDelete(m, k) == SelectSeq(m, LAMBDA e : e.sn # k)

----------------------------------------------------------------------------
(* FingerspotEasyLink: registry operations                                 *)

\* config.devices.forEach(c => this.devices.set(c.deviceSN, new FingerspotDevice(c)))
RECURSIVE ForEachSet(_, _)
ForEachSet(m, cfgs) ==
    IF cfgs = <<>> THEN m
    ELSE ForEachSet(MapSet(m, Head(cfgs).deviceSN, FingerspotDevice(Head(cfgs))), Tail(cfgs))

Constructor(cfgs) == ForEachSet(<<>>, cfgs)

\* the config of the last set() per serial number while running the constructor
RECURSIVE LastSet(_, _)
LastSet(f, cfgs) ==
    IF cfgs = <<>> THEN f
    ELSE LastSet([f EXCEPT ![Head(cfgs).deviceSN] = <<Head(cfgs)>>], Tail(cfgs))

NotFoundMessage(sn) == <<"Device with serial number ", sn, " not found">>

\* const device = this.devices.get(sn); if (!device) throw ...; return device
GetDeviceResult(m, sn) ==
    IF MapGet(m, sn) = None
    THEN [op |-> "getDevice", arg |-> sn, kind |-> "throw", value |-> NotFoundMessage(sn)]
    ELSE [op |-> "getDevice", arg |-> sn, kind |-> "return", value |-> MapGet(m, sn)[1]]

UnusedClient == pending = EmptyBag
UnusedFile == file = [exists |-> FALSE, text |-> <<>>] /\ written = None

InitRegistry ==
    /\ \E cfgs \in SeqsUpTo(DeviceConfig, MaxDevices) :
          /\ config = cfgs
          /\ devices = Constructor(cfgs)
          /\ inserted = LastSet([sn \in SerialNumbers |-> None], cfgs)
    /\ fresh = TRUE
    /\ result = [op |-> "new", arg |-> None, kind |-> "return", value |-> None]

getDevice(sn) ==
    /\ result' = GetDeviceResult(devices, sn)
    /\ UNCHANGED <<devices, config, fresh, inserted, pending, file, written>>

getDevices ==
    /\ result' = [op |-> "getDevices", arg |-> None, kind |-> "return",
                  value |-> MapKeys(devices)]
    /\ UNCHANGED <<devices, config, fresh, inserted, pending, file, written>>

addDevice(cfg) ==
    /\ devices' = MapSet(devices, cfg.deviceSN, FingerspotDevice(cfg))
    /\ inserted' = [inserted EXCEPT ![cfg.deviceSN] = <<cfg>>]
    /\ fresh' = FALSE
    /\ result' = [op |-> "addDevice", arg |-> cfg, kind |-> "return", value |-> None]
    /\ UNCHANGED <<config, pending, file, written>>

removeDevice(sn) ==
    /\ devices' = MapDelete(devices, sn)
    /\ inserted' = [inserted EXCEPT ![sn] = None]
    /\ fresh' = FALSE
    /\ result' = [op |-> "removeDevice", arg |-> sn, kind |-> "return",
                  value |-> MapHas(devices, sn)]
    /\ UNCHANGED <<config, pending, file, written>>

Init == InitRegistry /\ UnusedClient /\ UnusedFile

Next ==
    \/ \E sn \in SerialNumbers : getDevice(sn)
    \/ getDevices
    \/ \E cfg \in DeviceConfig : addDevice(cfg)
    \/ \E sn \in SerialNumbers : removeDevice(sn)

Spec == Init /\ [][Next]_vars

----------------------------------------------------------------------------
(* FingerspotDevice: the 14 operations                                     *)
(* A JavaScript object is a function from its keys to its values; an       *)
(* optional argument is <<>> (undefined) or <<v>>.                         *)

MaxPending == 2        \* most calls whose promises are held at one time

Pins == {"1234", "9999"}
FingerIndexes == {0, 1}
Timestamps == {1700000000}
StartDates == {<<>>, <<"">>, <<"2023-09-01">>}
EndDates == {<<>>, <<"">>, <<"2023-09-30">>}

\* values of type UserData
UserData ==
    {[pin |-> p, name |-> "John Doe"] : p \in {"1234"}} \cup
    {[pin |-> p, name |-> "John Doe", password |-> "123456", privilege |-> 0] : p \in {"1234"}}

\* values of type Partial<UserData>
PartialUserData ==
    {[name |-> "John Smith"], [name |-> "John Smith", password |-> "newpass"]} \cup
    {[pin |-> p, name |-> "John Smith"] : p \in Pins}

\* values of type TemplateData
TemplateData ==
    {[pin |-> "1234", finger_idx |-> i, template |-> "TEMPLATE_DATA"] : i \in FingerIndexes}

\* { ...a, ...b }: the keys of both, b's value where both have the key
Spread(a, b) ==
    [k \in (DOMAIN a) \cup (DOMAIN b) |-> IF k \in DOMAIN b THEN b[k] ELSE a[k]]

\* if (x) for an optional string: defined and not ''
Truthy(x) == x # <<>> /\ x[1] # ""

\* this.client.get(path, { params }) / this.client.delete(path, { params })
Get(path, params) == [method |-> "GET", path |-> path, params |-> <<params>>, data |-> <<>>]
Delete(path, params) == [method |-> "DELETE", path |-> path, params |-> <<params>>, data |-> <<>>]
\* this.client.post(path, data) / this.client.put(path, data)
Post(path, data) == [method |-> "POST", path |-> path, params |-> <<>>, data |-> <<data>>]
Put(path, data) == [method |-> "PUT", path |-> path, params |-> <<>>, data |-> <<data>>]

\* each operation: the request it sends and the action text of its catch block
getDeviceInfo(c) ==
    [request |-> Get("/dev_info", [sn |-> c.deviceSN]), action |-> "get device info"]

getUsers(c) ==
    [request |-> Get("/user", [sn |-> c.deviceSN]), action |-> "get users"]

getUserByPin(c, pin) ==
    [request |-> Get("/user", [sn |-> c.deviceSN, pin |-> pin]), action |-> "get user"]

addUser(c, userData) ==
    [request |-> Post("/user", Spread([sn |-> c.deviceSN], userData)), action |-> "add user"]

updateUser(c, pin, userData) ==
    [request |-> Put("/user", Spread([sn |-> c.deviceSN, pin |-> pin], userData)),
     action |-> "update user"]

deleteUser(c, pin) ==
    [request |-> Delete("/user", [sn |-> c.deviceSN, pin |-> pin]), action |-> "delete user"]

getUserTemplates(c, pin) ==
    [request |-> Get("/template", [sn |-> c.deviceSN, pin |-> pin]),
     action |-> "get user templates"]

uploadTemplate(c, templateData) ==
    [request |-> Post("/template", Spread([sn |-> c.deviceSN], templateData)),
     action |-> "upload template"]

deleteTemplate(c, pin, fingerIndex) ==
    [request |-> Delete("/template", [sn |-> c.deviceSN, pin |-> pin, finger_idx |-> fingerIndex]),
     action |-> "delete template"]

\* a getScanLogs that sends end_date only together with start_date (mutant)
getScanLogsNested(c, startDate, endDate) ==
    LET p0 == [sn |-> c.deviceSN]
        p1 == IF Truthy(startDate)
              THEN IF Truthy(endDate)
                   THEN Spread(p0, [start_date |-> startDate[1], end_date |-> endDate[1]])
                   ELSE Spread(p0, [start_date |-> startDate[1]])
              ELSE p0
    IN [request |-> Get("/scanlog", p1), action |-> "get scan logs"]

getScanLogs(c, startDate, endDate) ==
    LET p0 == [sn |-> c.deviceSN]
        p1 == IF Truthy(startDate) THEN Spread(p0, [start_date |-> startDate[1]]) ELSE p0
        p2 == IF Truthy(endDate) THEN Spread(p1, [end_date |-> endDate[1]]) ELSE p1
    IN [request |-> Get("/scanlog", p2), action |-> "get scan logs"]

clearScanLogs(c) ==
    [request |-> Delete("/scanlog", [sn |-> c.deviceSN]), action |-> "clear scan logs"]

setDeviceTime(c, timestamp) ==
    [request |-> Post("/dev_time", [sn |-> c.deviceSN, timestamp |-> timestamp]),
     action |-> "set device time"]

getDeviceTime(c) ==
    [request |-> Get("/dev_time", [sn |-> c.deviceSN]), action |-> "get device time"]

restartDevice(c) ==
    [request |-> Post("/dev_reboot", [sn |-> c.deviceSN]), action |-> "restart device"]

Operations ==
    {"getDeviceInfo", "getUsers", "getUserByPin", "addUser", "updateUser", "deleteUser",
     "getUserTemplates", "uploadTemplate", "deleteTemplate", "getScanLogs", "clearScanLogs",
     "setDeviceTime", "getDeviceTime", "restartDevice"}

NoArgs == [none |-> TRUE]

\* the argument lists a caller can pass to each operation
ArgsOf(op) ==
    CASE op \in {"getUserByPin", "deleteUser", "getUserTemplates"} -> [pin : Pins]
      [] op = "addUser" -> [userData : UserData]
      [] op = "updateUser" -> [pin : {"1234"}, userData : PartialUserData]
      [] op = "uploadTemplate" -> [templateData : TemplateData]
      [] op = "deleteTemplate" -> [pin : {"1234"}, fingerIndex : FingerIndexes]
      [] op = "getScanLogs" -> [startDate : StartDates, endDate : EndDates]
      [] op = "setDeviceTime" -> [timestamp : Timestamps]
      [] OTHER -> {NoArgs}

\* one argument list per operation
SampleArgs(op) == {CHOOSE a \in ArgsOf(op) : TRUE}

\* the method of client c named op, applied to args
Invoke(c, op, args) ==
    CASE op = "getDeviceInfo" -> getDeviceInfo(c)
      [] op = "getUsers" -> getUsers(c)
      [] op = "getUserByPin" -> getUserByPin(c, args.pin)
      [] op = "addUser" -> addUser(c, args.userData)
      [] op = "updateUser" -> updateUser(c, args.pin, args.userData)
      [] op = "deleteUser" -> deleteUser(c, args.pin)
      [] op = "getUserTemplates" -> getUserTemplates(c, args.pin)
      [] op = "uploadTemplate" -> uploadTemplate(c, args.templateData)
      [] op = "deleteTemplate" -> deleteTemplate(c, args.pin, args.fingerIndex)
      [] op = "getScanLogs" -> getScanLogs(c, args.startDate, args.endDate)
      [] op = "clearScanLogs" -> clearScanLogs(c)
      [] op = "setDeviceTime" -> setDeviceTime(c, args.timestamp)
      [] op = "getDeviceTime" -> getDeviceTime(c)
      [] op = "restartDevice" -> restartDevice(c)

\* what the HTTP layer delivers for a request
Envelopes == {[code |-> 0, message |-> "OK"], [code |-> 1, message |-> "Invalid PIN"]}
TransportErrors == {"read ECONNRESET", "timeout of 10000ms exceeded"}
\* the call as started: the request goes out on the client's axios instance
Started(c, op, args) ==
    [status |-> "awaiting", op |-> op, client |-> c, args |-> args,
     requests |-> <<[baseURL |-> c.baseURL, timeout |-> c.timeout,
                     request |-> Invoke(c, op, args).request]>>,
     response |-> [data |-> <<>>, error |-> <<>>],   \* what the HTTP layer delivered
     returned |-> <<>>, thrown |-> <<>>]

\* a call that issues its request again when the first attempt fails (mutant)
CatchRetry(call, message) ==
    [call EXCEPT !.requests = Append(@, @[1])]

\* catch (error) { throw new Error(`Failed to <action>: ${error.message}`) }
Catch(call, message) ==
    [call EXCEPT !.status = "thrown",
                 !.thrown = <<<<"Failed to ", Invoke(call.client, call.op, call.args).action,
                               ": ", message>>>>]

\* a call that raises the device's message when the envelope's code is not 0 (mutant)
ReturnDataChecked(call, envelope) ==
    IF envelope.code = 0
    THEN [call EXCEPT !.status = "returned",
                      !.returned = <<envelope>>]
    ELSE [call EXCEPT !.status = "thrown",
                      !.thrown = <<<<"Failed to ", Invoke(call.client, call.op, call.args).action,
                                    ": ", envelope.message>>>>]

\* return response.data
ReturnData(call, envelope) ==
    [call EXCEPT !.status = "returned",
                 !.returned = <<envelope>>]

RegistryUnchanged == UNCHANGED <<devices, config, fresh, inserted, result, file, written>>

Settled(call) == call.status \in {"returned", "thrown"}

\* sdk.getDevice(sn).<op>(args), while fewer than limit promises are held
Issue(limit, sn, op, args) ==
    /\ BagCardinality(pending) < limit
    /\ MapGet(devices, sn) # None
    /\ pending' = pending (+) SetToBag({Started(MapGet(devices, sn)[1], op, args)})
    /\ RegistryUnchanged

\* device.<op>(args) on the client of a settled call, whose promise is dropped,
\* when the registry no longer holds that client
IssueOnHeld(call, op, args) ==
    /\ BagIn(call, pending) /\ Settled(call)
    /\ MapGet(devices, call.client.deviceSN) # <<call.client>>
    /\ pending' = (pending (-) SetToBag({call})) (+) SetToBag({Started(call.client, op, args)})
    /\ RegistryUnchanged

\* the HTTP layer resolves the request of an awaiting call with a decoded envelope
Respond(call, envelope) ==
    /\ BagIn(call, pending) /\ call.status = "awaiting"
    /\ LET got == [call EXCEPT !.response = [data |-> <<envelope>>, error |-> <<>>]]
       IN pending' = (pending (-) SetToBag({call})) (+) SetToBag({ReturnData(got, envelope)})
    /\ RegistryUnchanged

\* the HTTP layer rejects the request of an awaiting call
Reject(call, message) ==
    /\ BagIn(call, pending) /\ call.status = "awaiting"
    /\ LET got == [call EXCEPT !.response = [data |-> <<>>, error |-> <<message>>]]
       IN pending' = (pending (-) SetToBag({call})) (+) SetToBag({Catch(got, message)})
    /\ RegistryUnchanged

\* the caller drops the promise of a settled call
Drop(call) ==
    /\ BagIn(call, pending) /\ Settled(call)
    /\ pending' = pending (-) SetToBag({call})
    /\ RegistryUnchanged

\* the devices of the client specifications
ClientSNs == {"DEVICE001", "DEVICE002"}
ClientConfigs == [serverIP : ServerIPs, serverPort : ServerPorts, deviceSN : ClientSNs]

InitClient ==
    /\ config = <<[serverIP |-> "192.168.1.100", serverPort |-> "8080", deviceSN |-> "DEVICE001"],
                  [serverIP |-> "192.168.1.100", serverPort |-> "8080", deviceSN |-> "DEVICE002"]>>
    /\ devices = Constructor(config)
    /\ inserted = LastSet([sn \in SerialNumbers |-> None], config)
    /\ fresh = TRUE
    /\ result = [op |-> "new", arg |-> None, kind |-> "return", value |-> None]
    /\ pending = EmptyBag
    /\ UnusedFile

\* one call at a time, every argument list, every response
NextCall ==
    \/ \E sn \in ClientSNs, op \in Operations : \E args \in ArgsOf(op) :
          Issue(1, sn, op, args)
    \/ \E call \in BagToSet(pending), op \in Operations : \E args \in ArgsOf(op) :
          IssueOnHeld(call, op, args)
    \/ \E call \in BagToSet(pending), envelope \in Envelopes : Respond(call, envelope)
    \/ \E call \in BagToSet(pending), message \in TransportErrors : Reject(call, message)
    \/ \E call \in BagToSet(pending) : Drop(call)
    \/ \E cfg \in ClientConfigs : addDevice(cfg)
    \/ \E sn \in ClientSNs : removeDevice(sn)

SpecCall == InitClient /\ [][NextCall]_vars

\* up to MaxPending calls in flight at once, on the same or on different clients,
\* while the first device is removed from the registry and added again
NextConcurrent ==
    \/ \E sn \in ClientSNs, op \in Operations : \E args \in SampleArgs(op) :
          Issue(MaxPending, sn, op, args)
    \/ \E call \in BagToSet(pending), op \in Operations : \E args \in SampleArgs(op) :
          IssueOnHeld(call, op, args)
    \/ \E call \in BagToSet(pending) : Respond(call, [code |-> 0, message |-> "OK"])
    \/ \E call \in BagToSet(pending) : Reject(call, "read ECONNRESET")
    \/ \E call \in BagToSet(pending) : Drop(call)
    \/ addDevice(config[1])
    \/ removeDevice(config[1].deviceSN)

SpecConcurrent == InitClient /\ [][NextConcurrent]_vars

----------------------------------------------------------------------------
(* FingerspotEasyLink: the schedule configuration file                     *)
(* A string that join / split / the INI text work on is a sequence of      *)
(* one-character strings; text is a sequence of lines.                     *)

MaxTokens == 2         \* longest serialNumbers / schedules list given to updateDeviceConfig

Sep == ";"

SerialTokens == {<<>>, <<"A">>, <<"B">>, <<"A", ";", "B">>}
ScheduleTokens == {<<>>, <<"0", "8">>}

\* values of type DeviceScheduleConfig
DeviceScheduleConfig ==
    [serialNumbers : SeqsUpTo(SerialTokens, MaxTokens),
     schedules : SeqsUpTo(ScheduleTokens, MaxTokens)]

\* a join() that leaves the separator out (mutant)
RECURSIVE JoinNoSeparator(_, _)
JoinNoSeparator(list, sep) ==
    IF list = <<>> THEN <<>> ELSE Head(list) \o JoinNoSeparator(Tail(list), sep)

\* Array.prototype.join(sep)
RECURSIVE Join(_, _)
Join(list, sep) ==
    IF list = <<>> THEN <<>>
    ELSE IF Len(list) = 1 THEN Head(list)
    ELSE Head(list) \o <<sep>> \o Join(Tail(list), sep)

\* String.prototype.split(sep): the segments between separators, empty ones included
RECURSIVE Split(_, _)
Split(str, sep) ==
    IF \A i \in DOMAIN str : str[i] # sep THEN <<str>>
    ELSE LET i == CHOOSE j \in DOMAIN str :
                     str[j] = sep /\ \A k \in 1..(j - 1) : str[k] # sep
         IN <<SubSeq(str, 1, i - 1)>> \o Split(SubSeq(str, i + 1, Len(str)), sep)

\* a filter that keeps every segment (mutant)
FilterKeepAll(segments) == segments

\* .filter(Boolean): the non-empty segments
FilterBoolean(segments) == SelectSeq(segments, LAMBDA seg : seg # <<>>)

\* a line of INI text: a section header [name], or a pair name=value
SectionLine(name) == [kind |-> "section", name |-> name, value |-> <<>>]
PairLine(name, value) == [kind |-> "pair", name |-> name, value |-> value]

\* ini.stringify of { Mesin: { sn }, Jadwal: { jam } }
IniStringify(obj) ==
    <<SectionLine("Mesin"), PairLine("sn", obj.Mesin.sn),
      SectionLine("Jadwal"), PairLine("jam", obj.Jadwal.jam)>>

\* ini.parse: per section, the value of each key, the last line of a key winning;
\* pairs before the first section header are under the section ""
RECURSIVE IniParseFrom(_, _, _)
IniParseFrom(lines, section, acc) ==
    IF lines = <<>> THEN acc
    ELSE LET line == Head(lines)
         IN IF line.kind = "section"
            THEN IniParseFrom(Tail(lines), line.name, acc)
            ELSE IniParseFrom(Tail(lines), section,
                     [k \in (DOMAIN acc) \cup {<<section, line.name>>} |->
                         IF k = <<section, line.name>> THEN line.value ELSE acc[k]])

IniParse(lines) == IniParseFrom(lines, "", <<>>)

\* config.<section>?.<key>: <<value>>, or <<>> for undefined
IniGet(parsed, section, key) ==
    IF <<section, key>> \in DOMAIN parsed THEN <<parsed[<<section, key>>]>> ELSE <<>>

\* v ? v.split(';').filter(Boolean) : []
TokensOf(v) ==
    IF v # <<>> /\ v[1] # <<>> THEN FilterBoolean(Split(v[1], Sep)) ELSE <<>>

ReadFailedMessage(message) == <<"Failed to read device configuration: ", message>>
UpdateFailedMessage(message) == <<"Failed to update device configuration: ", message>>

ENOENT == "ENOENT: no such file or directory, open 'device.ini'"
ReadErrors == {"EACCES: permission denied, open 'device.ini'"}
WriteErrors == {"EACCES: permission denied, open 'device.ini'"}

\* readDeviceConfig(), fsError being <<>> or <<message>> of a failing fs.readFile
ReadDeviceConfigResult(f, fsError) ==
    IF ~f.exists
    THEN [op |-> "readDeviceConfig", arg |-> fsError, kind |-> "throw",
          value |-> ReadFailedMessage(ENOENT)]
    ELSE IF fsError # <<>>
    THEN [op |-> "readDeviceConfig", arg |-> fsError, kind |-> "throw",
          value |-> ReadFailedMessage(fsError[1])]
    ELSE LET parsed == IniParse(f.text)
         IN [op |-> "readDeviceConfig", arg |-> fsError, kind |-> "return",
             value |-> [serialNumbers |-> TokensOf(IniGet(parsed, "Mesin", "sn")),
                        schedules |-> TokensOf(IniGet(parsed, "Jadwal", "jam"))]]

readDeviceConfig(fsError) ==
    /\ result' = ReadDeviceConfigResult(file, fsError)
    /\ UNCHANGED <<devices, config, fresh, inserted, pending, file, written>>

\* the text updateDeviceConfig hands to fs.writeFile
SerializedConfig(c) ==
    IniStringify([Mesin |-> [sn |-> Join(c.serialNumbers, Sep)],
                  Jadwal |-> [jam |-> Join(c.schedules, Sep)]])

\* updateDeviceConfig(c) with fs.writeFile succeeding
updateDeviceConfig(c) ==
    /\ file' = [exists |-> TRUE, text |-> SerializedConfig(c)]
    /\ written' = <<c>>
    /\ result' = [op |-> "updateDeviceConfig", arg |-> <<>>, kind |-> "return", value |-> TRUE]
    /\ UNCHANGED <<devices, config, fresh, inserted, pending>>

\* updateDeviceConfig(c), for whatever c, with fs.writeFile failing: before
\* opening the file (file untouched) or after opening it (file truncated)
updateDeviceConfigFails(message, opened) ==
    /\ file' = IF opened THEN [exists |-> TRUE, text |-> <<>>] ELSE file
    /\ written' = <<>>
    /\ result' = [op |-> "updateDeviceConfig", arg |-> <<message>>, kind |-> "throw",
                  value |-> UpdateFailedMessage(message)]
    /\ UNCHANGED <<devices, config, fresh, inserted, pending>>

\* files found at configPath when the registry is constructed
ExampleValues == {<<>>, <<"A">>, <<"A", ";", ";", "B", ";">>, <<";", "0", "8">>}

ExampleFiles ==
    { <<>>,
      <<SectionLine("Mesin")>>,
      <<SectionLine("Mesin"), PairLine("jam", <<"0", "8">>),
        SectionLine("Jadwal"), PairLine("sn", <<"A">>)>>,
      <<PairLine("sn", <<"A">>), PairLine("jam", <<"0", "8">>)>>,
      <<SectionLine("Other"), PairLine("sn", <<"B">>), PairLine("jam", <<"0", "8">>)>>,
      <<SectionLine("Mesin"), PairLine("sn", <<"A">>), PairLine("sn", <<"B", ";", "A">>),
        SectionLine("Other"), PairLine("sn", <<"A">>),
        SectionLine("Jadwal"), PairLine("mode", <<"A">>)>> } \cup
    { <<SectionLine("Mesin"), PairLine("sn", v), SectionLine("Jadwal"), PairLine("jam", w)>> :
         v \in ExampleValues, w \in ExampleValues } \cup
    { <<SectionLine("Jadwal"), PairLine("jam", w), PairLine("name", v),
        SectionLine("Other"), PairLine("k", v),
        SectionLine("Mesin"), PairLine("id", w), PairLine("sn", v)>> :
         v \in ExampleValues, w \in ExampleValues }

InitConfig ==
    /\ config = <<>>
    /\ devices = Constructor(config)
    /\ inserted = LastSet([sn \in SerialNumbers |-> None], config)
    /\ fresh = TRUE
    /\ result = [op |-> "new", arg |-> None, kind |-> "return", value |-> None]
    /\ pending = EmptyBag
    /\ written = None
    /\ \/ file = [exists |-> FALSE, text |-> <<>>]
       \/ \E text \in ExampleFiles : file = [exists |-> TRUE, text |-> text]

NextConfig ==
    \/ \E fsError \in {<<>>} \cup {<<e>> : e \in ReadErrors} : readDeviceConfig(fsError)
    \/ \E c \in DeviceScheduleConfig : updateDeviceConfig(c)
    \/ \E message \in WriteErrors, opened \in BOOLEAN :
          updateDeviceConfigFails(message, opened)

SpecConfig == InitConfig /\ [][NextConfig]_vars

----------------------------------------------------------------------------
(* Claims on the registry, checked under Spec                              *)

ConfigSNs == {config[i].deviceSN : i \in DOMAIN config}

NoDuplicates(s) == \A i, j \in DOMAIN s : s[i] = s[j] => i = j

\* the serial numbers of a config list in order of first occurrence
RECURSIVE FirstOccurrences(_)
FirstOccurrences(cfgs) ==
    IF cfgs = <<>> THEN <<>>
    ELSE LET rest == FirstOccurrences(SubSeq(cfgs, 1, Len(cfgs) - 1))
             sn == cfgs[Len(cfgs)].deviceSN
         IN IF sn \in Range(rest) THEN rest ELSE Append(rest, sn)

\* C1 as stated: getDevices() right after constructing from N device configs
\* returns N serial numbers, all those of the list, none twice.
C1_ExactlyN ==
    (fresh /\ result.op = "getDevices") =>
        /\ Len(result.value) = Len(config)
        /\ Range(result.value) = ConfigSNs
        /\ NoDuplicates(result.value)

\* C1 amended: getDevices() right after construction returns every distinct
\* serial number of the devices list exactly once, so as many entries as the
\* list has distinct serial numbers (N when they are pairwise distinct).
C1_OnePerDistinctSN ==
    (fresh /\ result.op = "getDevices") =>
        /\ Len(result.value) = Cardinality(ConfigSNs)
        /\ Range(result.value) = ConfigSNs
        /\ NoDuplicates(result.value)
        /\ (NoDuplicates([i \in DOMAIN config |-> config[i].deviceSN])
               => Len(result.value) = Len(config))

\* getDevices() was called on a registry constructed from a list repeating a serial number
C1_Witness ==
    /\ fresh /\ result.op = "getDevices"
    /\ Len(config) = MaxDevices
    /\ config[1].deviceSN = config[2].deviceSN
    /\ config[1].serverIP # config[2].serverIP

\* C2: getDevice(sn) throws 'Device with serial number <sn> not found' exactly
\* when sn is not registered, otherwise returns the client built from the
\* config last inserted for sn, bound to that config's base address; the
\* registry's entries are unchanged by the call.
C2_GetDevice ==
    /\ [](result.op = "getDevice" =>
            /\ result.kind \in {"return", "throw"}
            /\ result.kind = "throw" <=> ~(result.arg \in Range(MapKeys(devices)))
            /\ result.kind = "throw" =>
                 result.value = <<"Device with serial number ", result.arg, " not found">>
            /\ result.kind = "return" =>
                 /\ inserted[result.arg] # <<>>
                 /\ result.value.deviceSN = result.arg
                 /\ result.value.baseURL =
                      <<"http://", inserted[result.arg][1].serverIP, ":",
                        inserted[result.arg][1].serverPort>>)
    /\ [][result'.op = "getDevice" => devices' = devices]_vars

\* getDevice returned the client of a serial number re-added with another address
C2_Witness ==
    /\ result.op = "getDevice" /\ result.kind = "return"
    /\ \E i \in DOMAIN config :
          /\ config[i].deviceSN = result.arg
          /\ config[i].serverIP # inserted[result.arg][1].serverIP

\* getDevice threw for a serial number that had been registered by the constructor
C2_WitnessNotFound ==
    /\ result.op = "getDevice" /\ result.kind = "throw"
    /\ result.arg \in ConfigSNs

\* C3: addDevice leaves the length of getDevices() unchanged when the serial
\* number is registered and adds one when it is new; removeDevice(sn) returns
\* true exactly when sn was registered, removes it, never throws, and a serial
\* number only becomes registered again through addDevice.
C3_AddReplacesRemoveOnce ==
    [][ /\ result'.op = "addDevice" =>
              /\ result'.arg.deviceSN \in Range(MapKeys(devices'))
              /\ Len(MapKeys(devices')) =
                   IF result'.arg.deviceSN \in Range(MapKeys(devices))
                   THEN Len(MapKeys(devices)) ELSE Len(MapKeys(devices)) + 1
        /\ result'.op = "removeDevice" =>
              /\ result'.kind = "return"
              /\ result'.value = (result'.arg \in Range(MapKeys(devices)))
              /\ ~(result'.arg \in Range(MapKeys(devices')))
              /\ result'.value => Len(MapKeys(devices')) = Len(MapKeys(devices)) - 1
        /\ \A sn \in SerialNumbers :
              (~(sn \in Range(MapKeys(devices))) /\ sn \in Range(MapKeys(devices')))
                 => (result'.op = "addDevice" /\ result'.arg.deviceSN = sn)
      ]_vars

\* removeDevice returned false for a serial number the constructor had registered
C3_Witness ==
    /\ result.op = "removeDevice" /\ result.value = FALSE
    /\ result.arg \in ConfigSNs

\* C9: getDevices() lists the serial numbers in order of first insertion since
\* last absent: the constructor leaves them in order of first occurrence,
\* addDevice of a registered serial number keeps every position, addDevice of
\* a new one appends it, removeDevice deletes it and keeps the others' order.
C9_InsertionOrder ==
    /\ [](fresh => MapKeys(devices) = FirstOccurrences(config))
    /\ [](result.op = "getDevices" => result.value = MapKeys(devices))
    /\ [][ /\ result'.op = "addDevice" =>
                 MapKeys(devices') =
                    IF result'.arg.deviceSN \in Range(MapKeys(devices))
                    THEN MapKeys(devices)
                    ELSE Append(MapKeys(devices), result'.arg.deviceSN)
           /\ result'.op = "removeDevice" =>
                 MapKeys(devices') =
                    SelectSeq(MapKeys(devices), LAMBDA k : k # result'.arg)
           /\ result'.op \in {"getDevice", "getDevices"} =>
                 MapKeys(devices') = MapKeys(devices)
         ]_vars

\* a serial number registered first by the constructor is listed last after remove and add
C9_Witness ==
    /\ result.op = "getDevices"
    /\ Len(config) = 2 /\ config[1].deviceSN # config[2].deviceSN
    /\ result.value = <<config[2].deviceSN, config[1].deviceSN>>


----------------------------------------------------------------------------
(* Claims on the device client, checked under SpecCall and SpecConcurrent  *)

Calls == BagToSet(pending)

\* the action text documented for each operation
C4_ActionText(op) ==
    CASE op = "getDeviceInfo" -> "get device info"
      [] op = "getUsers" -> "get users"
      [] op = "getUserByPin" -> "get user"
      [] op = "addUser" -> "add user"
      [] op = "updateUser" -> "update user"
      [] op = "deleteUser" -> "delete user"
      [] op = "getUserTemplates" -> "get user templates"
      [] op = "uploadTemplate" -> "upload template"
      [] op = "deleteTemplate" -> "delete template"
      [] op = "getScanLogs" -> "get scan logs"
      [] op = "clearScanLogs" -> "clear scan logs"
      [] op = "setDeviceTime" -> "set device time"
      [] op = "getDeviceTime" -> "get device time"
      [] op = "restartDevice" -> "restart device"

\* C4: a call of any of the 14 operations raises exactly when its HTTP request
\* failed, with the message 'Failed to <action>: <underlying message>' for the
\* operation's own action text; when the request succeeded the decoded
\* envelope is returned unmodified, whatever its code.
C4_TransportFailuresRaise ==
    \A call \in Calls :
        /\ call.op \in Operations
        /\ call.status = "thrown" <=> call.response.error # <<>>
        /\ call.status = "returned" <=> call.response.data # <<>>
        /\ call.status = "thrown" =>
              /\ call.thrown =
                   <<<<"Failed to ", C4_ActionText(call.op), ": ", call.response.error[1]>>>>
              /\ call.returned = <<>>
        /\ call.status = "returned" =>
              /\ call.returned = call.response.data
              /\ call.thrown = <<>>
        /\ call.status = "awaiting" => (call.returned = <<>> /\ call.thrown = <<>>)

\* a call returned an envelope whose code is not 0
C4_Witness ==
    \E call \in Calls :
        /\ call.status = "returned"
        /\ call.returned[1].code # 0
        /\ call.op = "updateUser"

C6_ScanLogParams ==
    \A call \in Calls :
        call.op = "getScanLogs" =>
            LET r == call.requests[1].request
                sd == call.args.startDate
                ed == call.args.endDate
                hasStart == sd # <<>> /\ sd # <<"">>
                hasEnd == ed # <<>> /\ ed # <<"">>
            IN /\ r.method = "GET" /\ r.path = "/scanlog" /\ r.data = <<>>
               /\ Len(r.params) = 1
               /\ DOMAIN r.params[1] =
                     {"sn"} \cup (IF hasStart THEN {"start_date"} ELSE {})
                            \cup (IF hasEnd THEN {"end_date"} ELSE {})
               /\ r.params[1]["sn"] = call.client.deviceSN
               /\ hasStart => r.params[1]["start_date"] = sd[1]
               /\ hasEnd => r.params[1]["end_date"] = ed[1]

\* getScanLogs was called with an empty startDate and a non-empty endDate
C6_Witness ==
    \E call \in Calls :
        /\ call.op = "getScanLogs"
        /\ call.args.startDate = <<"">>
        /\ call.args.endDate = <<"2023-09-30">>

\* C10 as stated: updateUser(pin, userData) sends PUT /user with sn equal to
\* the client's serial number, pin equal to the pin argument and the other
\* supplied fields, also when userData carries a different pin.
C10_PinArgumentSent ==
    \A call \in Calls :
        call.op = "updateUser" =>
            LET r == call.requests[1].request
            IN /\ r.method = "PUT" /\ r.path = "/user" /\ r.params = <<>>
               /\ r.data[1]["sn"] = call.client.deviceSN
               /\ r.data[1]["pin"] = call.args.pin
               /\ \A k \in (DOMAIN call.args.userData) \ {"pin"} :
                     r.data[1][k] = call.args.userData[k]


----------------------------------------------------------------------------
(* Claims on the schedule configuration file, checked under SpecConfig     *)

C7_TokenOK(t) == t # <<>> /\ \A i \in DOMAIN t : t[i] # ";"

C7_ListOK(list) == \A i \in DOMAIN list : C7_TokenOK(list[i])

\* C7: after a successful updateDeviceConfig(c), whatever the file held
\* before, the file holds the sections Mesin and Jadwal with the keys sn and
\* jam and nothing else, and, when c's tokens are non-empty and free of ';',
\* readDeviceConfig() returns c's two lists, element for element in order.
C7_RoundTrip ==
    written # <<>> =>
        /\ file.exists
        /\ [i \in DOMAIN file.text |-> <<file.text[i].kind, file.text[i].name>>] =
              <<<<"section", "Mesin">>, <<"pair", "sn">>,
                <<"section", "Jadwal">>, <<"pair", "jam">>>>
        /\ (/\ result.op = "readDeviceConfig" /\ result.arg = <<>>
            /\ C7_ListOK(written[1].serialNumbers)
            /\ C7_ListOK(written[1].schedules))
              => /\ result.kind = "return"
                 /\ result.value.serialNumbers = written[1].serialNumbers
                 /\ result.value.schedules = written[1].schedules

\* a configuration with two serial numbers and two schedules was written and read back
C7_Witness ==
    /\ written # <<>>
    /\ result.op = "readDeviceConfig" /\ result.kind = "return"
    /\ written[1].serialNumbers = <<<<"A">>, <<"B">>>>
    /\ written[1].schedules = <<<<"0", "8">>, <<"0", "8">>>>

\* an empty list and a one-token list were written and read back
C7_WitnessEmptyList ==
    /\ written # <<>>
    /\ result.op = "readDeviceConfig" /\ result.kind = "return"
    /\ written[1].serialNumbers = <<>>
    /\ written[1].schedules = <<<<"0", "8">>>>

\* the name of the section a line of the text is in ("" before the first header)
C8_SectionAt(text, i) ==
    LET before == {j \in 1..(i - 1) : text[j].kind = "section"}
    IN IF before = {} THEN ""
       ELSE text[CHOOSE j \in before : \A k \in before : k <= j].name

\* the value of section.key in the text, the empty string when there is none
C8_ValueOf(text, section, key) ==
    LET at == {i \in DOMAIN text :
                  /\ text[i].kind = "pair" /\ text[i].name = key
                  /\ C8_SectionAt(text, i) = section}
    IN IF at = {} THEN <<>>
       ELSE text[CHOOSE i \in at : \A k \in at : k <= i].value

\* the maximal runs of characters other than ';' in str, from left to right
C8_Runs(str) ==
    LET starts == {i \in DOMAIN str : str[i] # ";" /\ (i = 1 \/ str[i - 1] = ";")}
        EndOf(i) == CHOOSE j \in i..Len(str) :
                       /\ \A k \in i..j : str[k] # ";"
                       /\ (j = Len(str) \/ str[j + 1] = ";")
        Nth(n) == CHOOSE i \in starts : Cardinality({k \in starts : k < i}) = n - 1
    IN [n \in 1..Cardinality(starts) |-> SubSeq(str, Nth(n), EndOf(Nth(n)))]

\* C8: readDeviceConfig on a readable file returns, and returns as
\* serialNumbers the non-empty ';'-separated segments of the value of Mesin.sn
\* in order, as schedules those of Jadwal.jam; a missing section, a missing key
\* or an empty value gives the empty list; no other section or key matters.
C8_ReadResult ==
    result.op = "readDeviceConfig" =>
        /\ result.kind = "return" <=> (file.exists /\ result.arg = <<>>)
        /\ result.kind = "return" =>
              /\ result.value.serialNumbers = C8_Runs(C8_ValueOf(file.text, "Mesin", "sn"))
              /\ result.value.schedules = C8_Runs(C8_ValueOf(file.text, "Jadwal", "jam"))

\* a file with sn=A;;B; under Mesin, an empty jam and other sections and keys was read
C8_Witness ==
    /\ result.op = "readDeviceConfig" /\ result.kind = "return"
    /\ written = <<>>
    /\ \E i \in DOMAIN file.text : file.text[i] = SectionLine("Other")
    /\ \E i \in DOMAIN file.text : file.text[i] = PairLine("sn", <<"A", ";", ";", "B", ";">>)
    /\ result.value.serialNumbers = <<<<"A">>, <<"B">>>>
    /\ result.value.schedules = <<>>

\* a file without the section Mesin was read
C8_WitnessMissing ==
    /\ result.op = "readDeviceConfig" /\ result.kind = "return"
    /\ file.text = <<SectionLine("Other"), PairLine("sn", <<"B">>), PairLine("jam", <<"0", "8">>)>>
    /\ result.value.serialNumbers = <<>>

====
